---- MODULE Spec2Model ----
(***************************************************************************)
(* State-machine model of the polling/dispatch loops of                    *)
(* yuritorres/telegram_torrent:                                            *)
(*   - torrent_monitor.monitor_torrents        (prog = "monitor")          *)
(*   - main.py: main / process_messages        (prog = "main")             *)
(*   - telegram_utils.process_messages         (prog = "utils")            *)
(*   - JellyfinTelegramBot command handlers    (prog = "jellyfin")         *)
(*   - 2telegram_bot.py authorized_user_only   (prog = "bot2")             *)
(* The entry points are separate processes; prog says which one runs.      *)
(***************************************************************************)
EXTENDS Integers, Sequences, FiniteSets, TLC

VARIABLES
    prog,                     \* which entry point this run executes
    env,                      \* what this run's environment holds
    pc,                       \* position of the running loop
    authorized_users,         \* AUTHORIZED_USERS / self.authorized_users
    jellyfin_manager,         \* TRUE iff a jellyfin_manager was passed in
    tg_pending,               \* Telegram server: updates not yet confirmed
    tg_last_id,               \* Telegram server: last update_id handed out
    last_update_id,           \* the caller's cursor
    updates,                  \* batch received by the current/last poll
    new_last_id,              \* process_messages local
    upd_idx,                  \* main.py: index of the next update of the batch
    poll,                     \* outcome of the last getUpdates request
    ret,                      \* how the last process_messages call ended
    log,                      \* per-update effects of the last process_messages call
    submitted,                \* update ids some call ran add_magnet for, with success
    resubmitted,              \* update ids a later call ran add_magnet for again
    completed_torrents,       \* keys of the completed_torrents dict
    previous_torrents_state,  \* dict hash -> [state, name]
    sent,                     \* send_telegram calls of the last step
    notified,                 \* hashes a completion notification was attempted for
    undelivered,              \* hashes whose completion notification did not get through
    status_counter,           \* main.py status_counter
    last_status_time,         \* monitor_torrents last_status_time
    now,                      \* wall clock (time.time())
    auth_outcome,             \* last command of a python-telegram-bot variant
    call,                     \* arguments of the function a run calls once
    result,                   \* what that call did and gave back
    active_downloads,         \* YouTubeDownloader.active_downloads
    thread,                   \* the download_video calls: position and locals
    on_complete_calls,        \* times each call's on_complete callback ran
    on_error_calls,           \* times each call's on_error callback ran
    cancelled,                \* calls cancel_download returned True for, in progress
    clobbered                 \* calls whose entry another call wrote or deleted

\* the state of the objects that are exercised on their own
ObjectVars == <<active_downloads, thread, on_complete_calls, on_error_calls,
                cancelled, clobbered>>

vars == <<prog, env, pc, authorized_users, jellyfin_manager, tg_pending, tg_last_id,
          last_update_id, updates, new_last_id, upd_idx, poll, ret, log,
          submitted, resubmitted, completed_torrents, previous_torrents_state,
          sent, notified, undelivered, status_counter, last_status_time,
          now, auth_outcome, call, result, ObjectVars>>

(***************************************************************************)
(* Bounds of the model.                                                    *)
(***************************************************************************)
MaxUpdateId == 3      \* update ids handed out by the Telegram server
MaxPending == 2       \* unconfirmed updates the server holds at once
MaxTime == 5          \* last clock value at which a monitor cycle starts

Hashes == {"h1", "h2"}
Users == {"u1", "u2"}
TorrentStates == {"downloading", "stalledDL", "seeding", "uploading", "pausedUP"}

Max(a, b) == IF a >= b THEN a ELSE b

Min(a, b) == IF a <= b THEN a ELSE b

\* a run that makes no single call, and a call that has not returned
NoCall == [op |-> "none"]

NoResult == [done |-> FALSE]

NameOf(h) == IF h = "h1" THEN "n1" ELSE "n2"

Range(s) == {s[i] : i \in DOMAIN s}

\* The torrent lists a backend can return: distinct hashes, any states.
Torrent(h, s) == [hash |-> h, state |-> s, name |-> NameOf(h)]

TorrentLists ==
    {<<>>}
    \cup {<<Torrent(h, s)>> : h \in env.hashes, s \in TorrentStates}
    \cup {<<Torrent(p[1], s1), Torrent(p[2], s2)>> :
              p \in {q \in env.hashes \X env.hashes : q[1] # q[2]},
              s1 \in TorrentStates, s2 \in TorrentStates}

\* fetch_torrents: raise_for_status / json either raise or give a list.
FetchResults ==
    {[ok |-> FALSE, torrents |-> <<>>]}
    \cup {[ok |-> TRUE, torrents |-> l] : l \in TorrentLists}

Msg(k, h, ok) == [kind |-> k, hash |-> h, ok |-> ok]

CompletionsFor(log_, h) ==
    Cardinality({i \in DOMAIN log_ : log_[i].kind = "completed" /\ log_[i].hash = h})

\* the hashes a log of send_telegram calls holds a completion notification for
Attempted(log_) == {log_[i].hash : i \in {j \in DOMAIN log_ : log_[j].kind = "completed"}}

\* those of them whose send_telegram call failed
Failed(log_) ==
    {log_[i].hash : i \in {j \in DOMAIN log_ : log_[j].kind = "completed" /\ ~log_[j].ok}}

(***************************************************************************)
(* torrent_monitor.monitor_torrents                                        *)
(***************************************************************************)
download_states ==
    {"downloading", "stalledDL", "checkingDL", "pausedDL", "queuedDL", "forcedDL"}

completion_states ==
    {"uploading", "seeding", "finished", "stalledUP", "checkingUP", "forcedUP"}

\* the intervalo argument (INTERVALO of main.py), in cycles
Intervalo == 2

\* time.sleep(1) plus the time the requests of a cycle take
CycleTimes == {1, 2}

\* dict comprehension of line 8
Snapshot(torrents) ==
    [h \in {t.hash : t \in Range(torrents)} |->
        LET t == CHOOSE t \in Range(torrents) : t.hash = h
        IN [state |-> t.state, name |-> t.name]]

\* Faulty variant: the snapshot keeps only the torrent written last.
DictPutAlone(d, k, v) == [x \in {k} |-> v]

\* previous_torrents_state[infohash] = {...}
DictPut(d, k, v) == [x \in DOMAIN d \cup {k} |-> IF x = k THEN v ELSE d[x]]

\* Faulty variant: a torrent never seen before counts as one that was downloading.
MonitorShouldNotifyUnseen(prev, completed, infohash, current_state) ==
    /\ infohash \in DOMAIN prev => prev[infohash].state \in download_states
    /\ current_state \in completion_states
    /\ infohash \notin completed

\* Faulty variant: a summary is due in every cycle.
StatusDueAlways(current_time, last) == TRUE

\* Faulty variant: the completion record is not consulted.
MonitorShouldNotifyAgain(prev, completed, infohash, current_state) ==
    /\ infohash \in DOMAIN prev
    /\ prev[infohash].state \in download_states
    /\ current_state \in completion_states

\* Faulty variant: the completion is never recorded.
MonitorMarkForgets(completed, infohash, delivered) == completed

\* Faulty variant: the completion is recorded only when the message got through.
MonitorMarkIfDelivered(completed, infohash, delivered) ==
    IF delivered THEN completed \cup {infohash} ELSE completed

\* lines 18-21: is a completion notification due for this torrent?
MonitorShouldNotify(prev, completed, infohash, current_state) ==
    /\ infohash \in DOMAIN prev
    /\ prev[infohash].state \in download_states
    /\ current_state \in completion_states
    /\ infohash \notin completed

\* line 23, reached whatever send_telegram returned
MonitorMark(completed, infohash, delivered) == completed \cup {infohash}

\* what send_telegram returns for the notification about h
Delivered(delivery, h) == IF h \in DOMAIN delivery THEN delivery[h] ELSE TRUE

\* lines 13-24: one torrent of the list; st = [prev, completed, sent]
MonitorTorrent(st, torrent, delivery) ==
    LET due == MonitorShouldNotify(st.prev, st.completed, torrent.hash, torrent.state)
        delivered == Delivered(delivery, torrent.hash)
    IN [prev |-> DictPut(st.prev, torrent.hash,
                         [state |-> torrent.state, name |-> torrent.name]),
        completed |-> IF due THEN MonitorMark(st.completed, torrent.hash, delivered)
                      ELSE st.completed,
        sent |-> IF due THEN Append(st.sent, Msg("completed", torrent.hash, delivered))
                 ELSE st.sent]

\* lines 12-24: the for loop; delivery[h] is what send_telegram returns for h
RECURSIVE MonitorLoop(_, _, _)
MonitorLoop(st, torrents, delivery) ==
    IF torrents = <<>> THEN st
    ELSE MonitorLoop(MonitorTorrent(st, Head(torrents), delivery), Tail(torrents), delivery)

\* the torrents of a list a notification is due for
MonitorDue(prev, completed, torrents) ==
    {t.hash : t \in {x \in Range(torrents) :
                        MonitorShouldNotify(prev, completed, x.hash, x.state)}}

\* line 26
StatusDue(current_time, last) == current_time - last >= Intervalo

\* lines 5-8: state before the loop
MonitorStart ==
    /\ prog = "monitor" /\ pc = "start"
    /\ \E r \in FetchResults :
          /\ IF r.ok
             THEN /\ previous_torrents_state' = Snapshot(r.torrents)
                  /\ pc' = "loop"
             ELSE /\ previous_torrents_state' = previous_torrents_state
                  /\ pc' = "raised"
    /\ sent' = <<>>
    /\ UNCHANGED <<prog, env, authorized_users, jellyfin_manager, tg_pending, tg_last_id,
                   last_update_id, updates, new_last_id, upd_idx, poll, ret, log,
                   submitted, resubmitted, completed_torrents, notified, undelivered,
                   status_counter, last_status_time, now, auth_outcome, call, result, ObjectVars>>

\* lines 9-32: one iteration of the while loop
MonitorCycle ==
    /\ prog = "monitor" /\ pc = "loop"
    /\ now <= MaxTime
    /\ \E r \in FetchResults, dt \in CycleTimes :
       \E delivery \in [MonitorDue(previous_torrents_state, completed_torrents,
                                    r.torrents) -> BOOLEAN],
          otherOk \in IF r.ok /\ ~StatusDue(now, last_status_time)
                      THEN {TRUE} ELSE BOOLEAN :
          /\ IF r.ok
             THEN LET st == MonitorLoop([prev |-> previous_torrents_state,
                                         completed |-> completed_torrents,
                                         sent |-> <<>>], r.torrents, delivery)
                      due == StatusDue(now, last_status_time)
                  IN /\ previous_torrents_state' = st.prev
                     /\ completed_torrents' = st.completed
                     /\ sent' = IF due THEN Append(st.sent, Msg("status", "", otherOk))
                                ELSE st.sent
                     /\ last_status_time' = IF due THEN now ELSE last_status_time
             ELSE /\ sent' = <<Msg("critical", "", otherOk)>>
                  /\ UNCHANGED <<previous_torrents_state, completed_torrents,
                                 last_status_time>>
          /\ now' = now + dt
    /\ notified' = notified \cup Attempted(sent')
    /\ undelivered' = undelivered \cup Failed(sent')
    /\ UNCHANGED <<prog, env, pc, authorized_users, jellyfin_manager, tg_pending,
                   tg_last_id, last_update_id, updates, new_last_id, upd_idx, poll,
                   ret, log, submitted, resubmitted, status_counter, auth_outcome, call, result, ObjectVars>>

(***************************************************************************)
(* The Telegram server: getUpdates with an offset                          *)
(***************************************************************************)
Update(id, text, chat, from) ==
    [update_id |-> id, text |-> text, chat_id |-> chat, from_id |-> from]

\* Texts are tokens; the magnet links a text holds are looked up here
\* (re.findall of the magnet pattern, one match per line of the text).
MagnetsIn(text) ==
    CASE text = "magnet1" -> <<"mA">>
      [] text = "magnet2" -> <<"mA", "mB">>
      [] OTHER -> <<>>

Shape(text, chat, from) == [text |-> text, chat_id |-> chat, from_id |-> from]

\* Updates without a text, without a chat id, without a sender.
Incomplete ==
    {Shape("", 1, "u1"), Shape("magnet1", 0, "u1"), Shape("/qtorrents", 1, "")}

\* main.py reads text and chat id only.
MainShapes ==
    {Shape("", 1, "u1"), Shape("magnet1", 0, "u1"), Shape("magnet1", 1, "u1")}

Commands ==
    {"/start", "/qespaco", "/qtorrents", "/recent", "/recentes", "/libraries",
     "/status", "/youtube"}

UtilsTexts == Commands \cup {"KB Listar Torrents", "ytlink", "magnet1", "magnet2", "hello"}

\* A chat of telegram_utils.process_messages is explored two ways: every
\* text from every user, one unconfirmed update at a time ("commands"), and
\* batches of complete and incomplete updates ("batches").
CommandShapes == {Shape(t, 1, u) : t \in UtilsTexts, u \in Users} \cup Incomplete

BatchShapes == {Shape("/start", 1, "u1"), Shape("/qtorrents", 1, "u2")} \cup Incomplete

Shapes ==
    CASE env.chat = "main" -> MainShapes
      [] env.chat = "commands" -> CommandShapes
      [] env.chat = "batches" -> BatchShapes
      [] OTHER -> {}

PendingLimit == IF env.chat = "commands" THEN 1 ELSE MaxPending

\* A new update reaches the server; ids grow, not always by one. The server
\* is read by getUpdates alone, so an update that arrives while a call runs
\* is the same as one that arrives right after it.
TgArrive ==
    /\ prog \in {"main", "utils"} /\ pc = "poll"
    /\ Len(tg_pending) < PendingLimit
    /\ \E gap \in 1..2, s \in Shapes :
          /\ tg_last_id + gap <= MaxUpdateId
          /\ tg_last_id' = tg_last_id + gap
          /\ tg_pending' = Append(tg_pending,
                 Update(tg_last_id + gap, s.text, s.chat_id, s.from_id))
    /\ sent' = <<>>
    /\ UNCHANGED <<prog, env, pc, authorized_users, jellyfin_manager, last_update_id,
                   updates, new_last_id, upd_idx, poll, ret, log, submitted,
                   resubmitted, completed_torrents, previous_torrents_state,
                   notified, undelivered, status_counter, last_status_time, now,
                   auth_outcome, call, result, ObjectVars>>

\* getUpdates(offset): updates below the offset are confirmed and forgotten,
\* the rest is returned in ascending id order.
GetUpdates(pending, offset) == SelectSeq(pending, LAMBDA u : u.update_id >= offset)

PollOutcomes == {"raise", "notok", "ok"}

(***************************************************************************)
(* main.py: process_messages, in the steps of its loop                     *)
(***************************************************************************)
AddOutcomes == {"ok", "http", "err"}

\* What happens around one magnet: add_magnet's outcome, whether the first
\* send_telegram of the iteration got through, and whether the one made by
\* the except branch that catches its failure did.
MagnetRuns == [add : AddOutcomes, s1 : BOOLEAN, s2 : BOOLEAN]

RunsOfLen(n) ==
    IF n = 0 THEN {<<>>}
    ELSE IF n = 1 THEN {<<r>> : r \in MagnetRuns}
    ELSE {<<r1, r2>> : r1 \in MagnetRuns, r2 \in MagnetRuns}

\* lines 83-95: one magnet; st = [raised, sent, calls, added], calls the
\* add_magnet calls made and added those that returned
MainMagnet(st, run) ==
    IF st.raised THEN st
    ELSE IF run.add = "ok"
    THEN IF run.s1
         THEN [st EXCEPT !.sent = Append(@, Msg("added", "", TRUE)),
                         !.calls = @ + 1,
                         !.added = @ + 1]
         ELSE \* send_telegram raised inside the try: an except branch sends
              [st EXCEPT !.sent = @ \o <<Msg("added", "", FALSE), Msg("error", "", run.s2)>>,
                         !.calls = @ + 1,
                         !.added = @ + 1,
                         !.raised = ~run.s2]
    ELSE [st EXCEPT !.sent = Append(@, Msg("error", "", run.s1)),
                    !.calls = @ + 1,
                    !.raised = ~run.s1]

RECURSIVE MainMagnets(_, _)
MainMagnets(st, runs) ==
    IF runs = <<>> THEN st
    ELSE MainMagnets(MainMagnet(st, Head(runs)), Tail(runs))

\* line 77
MainAccepts(update) == update.text # "" /\ update.chat_id # 0

\* lines 72-95: one update of the batch
MainHandleUpdate(update, runs) ==
    IF MainAccepts(update)
    THEN MainMagnets([raised |-> FALSE, sent |-> <<>>, calls |-> 0, added |-> 0], runs)
    ELSE [raised |-> FALSE, sent |-> <<>>, calls |-> 0, added |-> 0]

\* line 97
MainAdvance(cursor, update_id) == Max(cursor, update_id)

MainRest == <<prog, env, authorized_users, jellyfin_manager, tg_last_id, log,
              completed_torrents, previous_torrents_state, notified, undelivered,
              status_counter, last_status_time, now, auth_outcome, call, result, ObjectVars>>

\* lines 57-69 and 101-103: the request, and the handler of its failure
MainPoll ==
    /\ prog = "main" /\ pc = "poll"
    /\ \E o \in PollOutcomes, warnOk \in BOOLEAN :
          /\ poll' = o
          /\ CASE o = "raise" ->
                    /\ ret' = IF warnOk THEN "returned" ELSE "raised"
                    /\ pc' = IF warnOk THEN "fetch" ELSE "except"
                    /\ updates' = <<>>
                    /\ UNCHANGED <<tg_pending, new_last_id, upd_idx>>
               [] o = "notok" ->
                    /\ ret' = "returned"
                    /\ pc' = "fetch"
                    /\ updates' = <<>>
                    /\ UNCHANGED <<tg_pending, new_last_id, upd_idx>>
               [] o = "ok" ->
                    LET batch == GetUpdates(tg_pending, last_update_id + 1)
                    IN /\ tg_pending' = batch
                       /\ updates' = batch
                       /\ new_last_id' = last_update_id
                       /\ upd_idx' = 1
                       /\ ret' = IF batch = <<>> THEN "returned" ELSE "running"
                       /\ pc' = IF batch = <<>> THEN "fetch" ELSE "dispatch"
    /\ sent' = <<>>
    /\ UNCHANGED <<last_update_id, submitted, resubmitted>>
    /\ UNCHANGED MainRest

\* lines 71-99 and 101-103: one update of the batch, the return after the
\* last one, and the handler of an exception that escapes the loop
MainDispatch ==
    /\ prog = "main" /\ pc = "dispatch"
    /\ LET u == updates[upd_idx]
           n == IF MainAccepts(u) THEN Len(MagnetsIn(u.text)) ELSE 0
       IN \E runs \in RunsOfLen(n), warnOk \in BOOLEAN :
            LET res == MainHandleUpdate(u, runs)
            IN /\ submitted' = IF res.added > 0 THEN submitted \cup {u.update_id}
                               ELSE submitted
               /\ resubmitted' = IF res.added > 0 /\ u.update_id \in submitted
                                 THEN resubmitted \cup {u.update_id}
                                 ELSE resubmitted
               /\ IF res.raised
                  THEN /\ ret' = IF warnOk THEN "returned" ELSE "raised"
                       /\ pc' = IF warnOk THEN "fetch" ELSE "except"
                       /\ UNCHANGED <<new_last_id, upd_idx, last_update_id>>
                  ELSE /\ new_last_id' = MainAdvance(new_last_id, u.update_id)
                       /\ IF upd_idx = Len(updates)
                          THEN /\ last_update_id' = new_last_id'
                               /\ ret' = "returned"
                               /\ pc' = "fetch"
                               /\ UNCHANGED upd_idx
                          ELSE /\ upd_idx' = upd_idx + 1
                               /\ UNCHANGED <<last_update_id, ret, pc>>
    /\ sent' = <<>>
    /\ UNCHANGED <<tg_pending, updates, poll>>
    /\ UNCHANGED MainRest

(***************************************************************************)
(* main.py: the torrent check of the loop, lines 121-143                   *)
(***************************************************************************)
\* lines 130-131
MainShouldNotify(prev, completed, infohash, current_state) ==
    /\ infohash \in DOMAIN prev
    /\ prev[infohash].state = "downloading"
    /\ current_state \in {"seeding", "finished"}
    /\ infohash \notin completed

\* Faulty variant: the snapshot is written before the notification is sent.
MainTorrentSnapshotFirst(st, torrent, delivery) ==
    IF st.raised THEN st
    ELSE LET due == MainShouldNotify(st.prev, st.completed, torrent.hash, torrent.state)
             delivered == Delivered(delivery, torrent.hash)
             prev == DictPut(st.prev, torrent.hash,
                             [state |-> torrent.state, name |-> torrent.name])
         IN [prev |-> prev,
             completed |-> IF due /\ delivered THEN st.completed \cup {torrent.hash}
                           ELSE st.completed,
             sent |-> IF due
                      THEN Append(st.sent, Msg("completed", torrent.hash, delivered))
                      ELSE st.sent,
             raised |-> due /\ ~delivered]

\* lines 125-136: one torrent; main.py's send_telegram raises when the
\* request fails, which leaves the loop before lines 133 and 136.
MainTorrent(st, torrent, delivery) ==
    IF st.raised THEN st
    ELSE LET due == MainShouldNotify(st.prev, st.completed, torrent.hash, torrent.state)
             delivered == Delivered(delivery, torrent.hash)
         IN IF due /\ ~delivered
            THEN [st EXCEPT !.sent = Append(@, Msg("completed", torrent.hash, FALSE)),
                            !.raised = TRUE]
            ELSE [prev |-> DictPut(st.prev, torrent.hash,
                                   [state |-> torrent.state, name |-> torrent.name]),
                  completed |-> IF due THEN st.completed \cup {torrent.hash}
                                ELSE st.completed,
                  sent |-> IF due
                           THEN Append(st.sent, Msg("completed", torrent.hash, TRUE))
                           ELSE st.sent,
                  raised |-> FALSE]

RECURSIVE MainLoop(_, _, _)
MainLoop(st, torrents, delivery) ==
    IF torrents = <<>> THEN st
    ELSE MainLoop(MainTorrent(st, Head(torrents), delivery), Tail(torrents), delivery)

MainDue(prev, completed, torrents) ==
    {t.hash : t \in {x \in Range(torrents) :
                        MainShouldNotify(prev, completed, x.hash, x.state)}}

\* line 139. The counter is only ever compared with >= INTERVALO (line 140),
\* so every value from INTERVALO on is kept as INTERVALO.
Counted(c) == IF c + 1 >= Intervalo THEN Intervalo ELSE c + 1

MainMsgVars == <<tg_pending, tg_last_id, last_update_id, log, submitted, resubmitted>>

\* the locals of process_messages are gone once it has returned or raised
MainLocalsGone ==
    /\ updates' = <<>> /\ new_last_id' = 0 /\ upd_idx' = 1
    /\ poll' = "none" /\ ret' = "none"

\* lines 121-143, and the sleep of line 149 when nothing was raised
MainCheckTorrents ==
    /\ prog = "main" /\ pc = "fetch"
    /\ \E r \in FetchResults :
       \E delivery \in [MainDue(previous_torrents_state, completed_torrents,
                                 r.torrents) -> BOOLEAN],
          statusOk \in IF r.ok /\ Counted(status_counter) >= Intervalo
                       THEN BOOLEAN ELSE {TRUE} :
          /\ IF r.ok
             THEN LET st == MainLoop([prev |-> previous_torrents_state,
                                      completed |-> completed_torrents,
                                      sent |-> <<>>, raised |-> FALSE],
                                     r.torrents, delivery)
                      due == Counted(status_counter) >= Intervalo
                  IN /\ previous_torrents_state' = st.prev
                     /\ completed_torrents' = st.completed
                     /\ IF st.raised
                        THEN /\ sent' = st.sent
                             /\ pc' = "except"
                             /\ UNCHANGED status_counter
                        ELSE /\ sent' = IF due
                                        THEN Append(st.sent, Msg("status", "", statusOk))
                                        ELSE st.sent
                             /\ status_counter' = IF due /\ statusOk THEN 0
                                                  ELSE Counted(status_counter)
                             /\ pc' = IF due /\ ~statusOk THEN "except" ELSE "poll"
             ELSE /\ sent' = <<>>
                  /\ pc' = "except"
                  /\ UNCHANGED <<previous_torrents_state, completed_torrents,
                                 status_counter>>
    /\ notified' = notified \cup Attempted(sent')
    /\ undelivered' = undelivered \cup Failed(sent')
    /\ MainLocalsGone
    /\ UNCHANGED MainMsgVars
    /\ UNCHANGED <<prog, env, authorized_users, jellyfin_manager, last_status_time, now,
                   auth_outcome, call, result, ObjectVars>>

\* lines 145-149: the handler sends too, and nothing catches its failure;
\* when it gets through, the loop sleeps and starts over
MainExcept ==
    /\ prog = "main" /\ pc = "except"
    /\ \E ok \in BOOLEAN :
          /\ sent' = <<Msg("critical", "", ok)>>
          /\ pc' = IF ok THEN "poll" ELSE "crashed"
    /\ MainLocalsGone
    /\ UNCHANGED MainMsgVars
    /\ UNCHANGED <<prog, env, authorized_users, jellyfin_manager, completed_torrents,
                   previous_torrents_state, notified, undelivered, status_counter,
                   last_status_time, now, auth_outcome, call, result, ObjectVars>>

(***************************************************************************)
(* telegram_utils.process_messages                                         *)
(***************************************************************************)
\* lines 609-620
keyboard_command_map(text) ==
    CASE text = "KB Status do Servidor" -> "/status"
      [] text = "KB Listar Torrents" -> "/qtorrents"
      [] text = "KB Espaco em Disco" -> "/qespaco"
      [] text = "KB Itens Recentes" -> "/recent"
      [] text = "KB Recentes Detalhado" -> "/recentes"
      [] text = "KB Bibliotecas" -> "/libraries"
      [] text = "KB YouTube" -> "/youtube"
      [] text = "KB Ajuda" -> "/start"
      [] OTHER -> text

\* line 601
UtilsAccepts(update) ==
    update.text # "" /\ update.chat_id # 0 /\ update.from_id # ""

\* Faulty variant: an empty list authorizes nobody.
IsListed(users, user_id) == user_id \in users

\* line 607
IsAuthorized(users, user_id) == users = {} \/ user_id \in users

\* The names youtube_downloader.py binds at module level, next to the
\* library names it imports; line 716 imports is_youtube_url from it, which
\* is not among them: the import raises ImportError.
YoutubeDownloaderNames ==
    {"logger", "DownloadStatus", "VideoInfo", "YouTubeDownloader",
     "TelegramBotExample", "main"}

ImportsResolve == {"is_youtube_url", "YouTubeDownloader"} \subseteq YoutubeDownloaderNames

IsYoutubeUrl(text) == text = "ytlink"

\* What handling one update did: denial notifications sent, calls made to the
\* torrent backend, the Jellyfin manager or the downloader, notifications
\* sent in all, whether a handler ran, whether an exception reached line 750.
Effect(d, b, n, h, r) ==
    [denials |-> d, backend |-> b, sends |-> n, handled |-> h, raised |-> r]

\* lines 647-649 and the like: the gate in front of a handler
Gate(is_authorized, effect) ==
    IF ~is_authorized THEN Effect(1, 0, 1, FALSE, FALSE) ELSE effect

\* lines 715-748
UtilsLinks(text, is_authorized) ==
    IF ~ImportsResolve THEN Effect(0, 0, 0, FALSE, TRUE)
    ELSE IF IsYoutubeUrl(text)
    THEN Gate(is_authorized, Effect(0, 1, 0, TRUE, FALSE))
    ELSE LET n == Len(MagnetsIn(text))
         IN IF ~is_authorized THEN Effect(n, 0, n, FALSE, FALSE)
            ELSE Effect(0, n, 2 * n, n > 0, FALSE)

\* lines 623-753: the if/elif chain on the text of an accepted update
UtilsCommand(text, is_authorized, jm) ==
    CASE text = "/start" -> Effect(0, 0, 1, TRUE, FALSE)
      [] text = "/qespaco" -> Effect(0, 1, 1, TRUE, FALSE)
      [] text = "/qtorrents" -> Gate(is_authorized, Effect(0, 1, 1, TRUE, FALSE))
      [] text = "/recent" /\ jm -> Gate(is_authorized, Effect(0, 1, 1, TRUE, FALSE))
      [] text = "/recentes" /\ jm -> Gate(is_authorized, Effect(0, 1, 2, TRUE, FALSE))
      [] text = "/libraries" /\ jm -> Gate(is_authorized, Effect(0, 1, 1, TRUE, FALSE))
      [] text = "/status" /\ jm -> Gate(is_authorized, Effect(0, 1, 1, TRUE, FALSE))
      [] text = "/youtube" -> Gate(is_authorized, Effect(0, 0, 1, TRUE, FALSE))
      [] OTHER -> UtilsLinks(text, is_authorized)

\* lines 591-753: one update of the batch; st = [new_last_id, log]
UtilsUpdate(st, update, users, jm) ==
    IF ~UtilsAccepts(update)
    THEN [st EXCEPT !.log = Append(@, [update |-> update, accepted |-> FALSE,
                                       effect |-> Effect(0, 0, 0, FALSE, FALSE)])]
    ELSE [new_last_id |-> Max(st.new_last_id, update.update_id),
          log |-> Append(st.log,
                    [update |-> update, accepted |-> TRUE,
                     effect |-> UtilsCommand(keyboard_command_map(update.text),
                                             IsAuthorized(users, update.from_id), jm)])]

RECURSIVE UtilsLoop(_, _, _, _)
UtilsLoop(st, batch, users, jm) ==
    IF batch = <<>> THEN st
    ELSE UtilsLoop(UtilsUpdate(st, Head(batch), users, jm), Tail(batch), users, jm)

\* Faulty variant: the cursor starts over.
NewLastIdZero(cursor) == 0

\* line 588
NewLastIdInit(cursor) == cursor

\* lines 578-762: the outcome of a call. bound says whether line 588 was
\* reached, that is whether the name new_last_id exists at line 762.
UtilsCall(o, cursor, pending, users, jm) ==
    CASE o = "raise" ->
            [bound |-> FALSE, early |-> FALSE, new_last_id |-> 0, log |-> <<>>,
             batch |-> <<>>]
      [] o = "notok" ->
            [bound |-> FALSE, early |-> TRUE, new_last_id |-> 0, log |-> <<>>,
             batch |-> <<>>]
      [] o = "ok" ->
            LET batch == GetUpdates(pending, cursor + 1)
                st == UtilsLoop([new_last_id |-> NewLastIdInit(cursor), log |-> <<>>],
                                batch, users, jm)
            IN [bound |-> TRUE, early |-> FALSE, new_last_id |-> st.new_last_id,
                log |-> st.log, batch |-> batch]

\* lines 557-762, with a bot token configured
UtilsProcessMessages ==
    /\ prog = "utils" /\ pc = "poll"
    /\ \E o \in PollOutcomes :
          LET c == UtilsCall(o, last_update_id, tg_pending, authorized_users,
                             jellyfin_manager)
          IN /\ poll' = o
             /\ updates' = c.batch
             /\ log' = c.log
             /\ tg_pending' = IF o = "ok" THEN c.batch ELSE tg_pending
             /\ new_last_id' = c.new_last_id
             \* line 585 returns last_update_id; line 762 returns new_last_id,
             \* which raises UnboundLocalError when the name was never bound
             /\ ret' = IF c.early \/ c.bound THEN "returned" ELSE "raised"
             /\ last_update_id' = IF c.bound THEN c.new_last_id ELSE last_update_id
    /\ UNCHANGED <<prog, env, pc, authorized_users, jellyfin_manager, tg_last_id,
                   upd_idx, submitted, resubmitted, completed_torrents,
                   previous_torrents_state, sent, notified, undelivered, status_counter,
                   last_status_time, now, auth_outcome, call, result, ObjectVars>>

(***************************************************************************)
(* The python-telegram-bot variants and their authorization checks         *)
(***************************************************************************)
JellyfinCommands == {"start", "recent", "recentes", "search", "libraries", "status"}

Bot2Commands == {"start", "help", "search"}

\* jellyfin_telegram.py line 117
is_authorized(users, user_id) == users = {} \/ user_id \in users

\* 2telegram_bot.py line 68
Bot2Allows(users, user_id) == user_id \in users

BotRest == <<prog, env, pc, authorized_users, jellyfin_manager, tg_pending,
             tg_last_id, last_update_id, updates, new_last_id, upd_idx, poll, ret,
             log, submitted, resubmitted, completed_torrents, previous_torrents_state,
             sent, notified, undelivered, status_counter, last_status_time, now,
             call, result, ObjectVars>>

\* the first lines of every command handler of JellyfinTelegramBot: only
\* start_command answers a user it turns away
JellyfinCommand ==
    /\ prog = "jellyfin"
    /\ \E cmd \in JellyfinCommands, user \in Users :
          LET allowed == is_authorized(authorized_users, user)
          IN auth_outcome' = [cmd |-> cmd, user |-> user, ran |-> allowed,
                              denial |-> ~allowed /\ cmd = "start"]
    /\ UNCHANGED BotRest

\* authorized_user_only wrapped around each handler. user "" stands for an
\* update without effective_user.
Bot2Command ==
    /\ prog = "bot2"
    /\ \E cmd \in Bot2Commands, user \in Users \cup {""} :
          LET allowed == user # "" /\ Bot2Allows(authorized_users, user)
          IN auth_outcome' = [cmd |-> cmd, user |-> user, ran |-> allowed,
                              denial |-> user # "" /\ ~allowed]
    /\ UNCHANGED BotRest

(***************************************************************************)
(* telegram_utils.send_telegram                                            *)
(***************************************************************************)
MaxMessageLength == 4096

KeptLength == 4093

\* len("...")
EllipsisLength == 3

MaxTags == 2          \* matches of a tag pattern in a text
MaxOver == 50         \* how far past the limit the longest text goes

\* A text: how many characters of the caller's message it starts with, how
\* many "..." follow them, the matches of the patterns of lines 124-125, and
\* how many of those matches end after the first 4093 characters.
Text(n, o, c, lo, lc) ==
    [taken |-> n, dots |-> 0, open_tags |-> o, close_tags |-> c,
     late_open |-> lo, late_close |-> lc]

TextLen(t) == t.taken + EllipsisLength * t.dots

TextLengths ==
    {1, KeptLength, MaxMessageLength - 1, MaxMessageLength, MaxMessageLength + 1,
     MaxMessageLength + MaxOver}

\* where the tags lie is told apart only for the texts that get cut
Texts ==
    {Text(n, o, c, 0, 0) : n \in TextLengths, o \in 0..MaxTags, c \in 0..MaxTags}
    \cup {t \in {Text(n, o, c, lo, lc) :
                    n \in {m \in TextLengths : m > MaxMessageLength},
                    o \in 0..MaxTags, c \in 0..MaxTags,
                    lo \in 0..MaxTags, lc \in 0..MaxTags} :
              t.late_open <= t.open_tags /\ t.late_close <= t.close_tags}

ParseModes == {"HTML", "Markdown", "None"}

\* what requests.post and raise_for_status do
PostOutcomes == {"ok", "request_error", "error"}

\* Faulty variant: the ellipsis is added to a text cut at the limit.
TruncateAtLimit(t) ==
    IF TextLen(t) > MaxMessageLength
    THEN [t EXCEPT !.taken = Min(@, MaxMessageLength), !.dots = 1]
    ELSE t

\* Faulty variant: the tags are not counted.
SanitizeNothing(parse_mode, t) == parse_mode

\* lines 122-129
Sanitize(parse_mode, t) ==
    IF parse_mode = "HTML" /\ t.open_tags # t.close_tags THEN "None" ELSE parse_mode

\* lines 132-133: the tags that end after the cut are gone with it
Truncate(t) ==
    IF TextLen(t) > MaxMessageLength
    THEN [t EXCEPT !.taken = Min(@, KeptLength), !.dots = 1,
                   !.open_tags = @ - t.late_open, !.close_tags = @ - t.late_close,
                   !.late_open = 0, !.late_close = 0]
    ELSE t

\* lines 135-142: what is handed to requests.post
Payload(t, parse_mode, keyboard) ==
    [text |-> t, parse_mode |-> parse_mode, keyboard |-> keyboard]

\* Faulty variant: the retry is made after any failure, in the same mode.
send_telegram_again(token, chat, msg, parse_mode, use_keyboard, outcomes) ==
    IF ~token \/ ~chat
    THEN [done |-> TRUE, posts |-> <<>>, met |-> <<>>, ret |-> FALSE]
    ELSE LET mode == Sanitize(parse_mode, msg)
             text == Truncate(msg)
             first == Payload(text, mode, use_keyboard)
         IN IF outcomes[1] = "ok"
            THEN [done |-> TRUE, posts |-> <<first>>, met |-> <<"ok">>, ret |-> TRUE]
            ELSE [done |-> TRUE, posts |-> <<first, first>>, met |-> outcomes,
                  ret |-> outcomes[2] = "ok"]

\* lines 111-156. token: TELEGRAM_BOT_TOKEN is set; chat: a chat id was
\* given or TELEGRAM_CHAT_ID is set; outcomes: what the first request and
\* the one of the retry of line 152 do; met: what each request made did.
send_telegram(token, chat, msg, parse_mode, use_keyboard, outcomes) ==
    IF ~token \/ ~chat
    THEN [done |-> TRUE, posts |-> <<>>, met |-> <<>>, ret |-> FALSE]
    ELSE LET mode == Sanitize(parse_mode, msg)
             text == Truncate(msg)
             first == Payload(text, mode, use_keyboard)
         IN CASE outcomes[1] = "ok" ->
                    [done |-> TRUE, posts |-> <<first>>, met |-> <<"ok">>, ret |-> TRUE]
              [] outcomes[1] = "request_error" /\ mode = "HTML" ->
                    \* send_telegram(msg, chat_id, parse_mode=None)
                    [done |-> TRUE,
                     posts |-> <<first, Payload(Truncate(text), "None", FALSE)>>,
                     met |-> outcomes,
                     ret |-> outcomes[2] = "ok"]
              [] OTHER ->
                    [done |-> TRUE, posts |-> <<first>>, met |-> <<outcomes[1]>>,
                     ret |-> FALSE]

SendCalls ==
    {[op |-> "send_telegram", token |-> tk, chat |-> ch, msg |-> m, parse_mode |-> pm,
      use_keyboard |-> kb] :
        tk \in BOOLEAN, ch \in BOOLEAN, m \in Texts, pm \in ParseModes, kb \in BOOLEAN}

CallRest == <<prog, env, pc, authorized_users, jellyfin_manager, tg_pending,
              tg_last_id, last_update_id, updates, new_last_id, upd_idx, poll, ret,
              log, submitted, resubmitted, completed_torrents, previous_torrents_state,
              sent, notified, undelivered, status_counter, last_status_time, now,
              auth_outcome, call, ObjectVars>>

SendTelegram ==
    /\ prog = "send_telegram" /\ ~result.done
    /\ \E o1 \in PostOutcomes, o2 \in PostOutcomes :
          result' = send_telegram(call.token, call.chat, call.msg, call.parse_mode,
                                  call.use_keyboard, <<o1, o2>>)
    /\ UNCHANGED CallRest

(***************************************************************************)
(* jackett_client.JackettClient._parse_torznab_response                    *)
(***************************************************************************)
MaxItems == 2         \* <item> elements of a feed

\* line 62: the URI the client binds the prefix torznab to. A feed binds
\* the prefix itself, to this URI or to the one of the Torznab feed schema.
TORZNAB_NAMESPACE == "http://torznab.com/schemas/servarr/2014/01/16/torznab"

FeedNamespaces == {TORZNAB_NAMESPACE, "http://torznab.com/schemas/2015/feed"}

\* a torznab:attr element of an item: present or not, and its value
Attr(v) == [set |-> TRUE, value |-> v]

NoAttr == [set |-> FALSE, value |-> 0]

Item(title, enclosure, link_tag, size, seeders, leechers, peers) ==
    [title |-> title, enclosure |-> enclosure, link_tag |-> link_tag,
     size |-> size, seeders |-> seeders, leechers |-> leechers, peers |-> peers]

\* Items: a magnet enclosure with the three attributes; no link at all; a
\* .torrent enclosure next to a <link>; peers in place of leechers; a
\* <link> that is neither http nor magnet; a value that is not a number.
ItemShapes ==
    {Item("A", "magnet", "none", Attr(1073741824), Attr(10), Attr(2), NoAttr),
     Item("B", "none", "none", Attr(5), Attr(1), Attr(1), NoAttr),
     Item("C", "http", "http", Attr(7), Attr(3), NoAttr, Attr(4)),
     Item("D", "none", "magnet", NoAttr, NoAttr, NoAttr, Attr(9)),
     Item("E", "none", "ftp", Attr(1), Attr(1), Attr(1), NoAttr),
     Item("F", "magnet", "http", Attr(-1), Attr(6), Attr(0), NoAttr)}

RECURSIVE SeqsUpTo(_, _)
SeqsUpTo(S, n) ==
    IF n = 0 THEN {<<>>}
    ELSE LET shorter == SeqsUpTo(S, n - 1)
         IN shorter \cup {Append(q, x) : q \in {r \in shorter : Len(r) = n - 1}, x \in S}

\* The documents a request can be answered with: text that is not XML, an
\* <error> element as the document, an <error> element inside the root, a
\* root without <channel>, and a feed.
Responses ==
    {[kind |-> k, ns |-> TORZNAB_NAMESPACE, items |-> <<>>] :
        k \in {"malformed", "error_root", "error_child", "no_channel"}}
    \cup {[kind |-> "feed", ns |-> ns, items |-> items] :
              ns \in FeedNamespaces, items \in SeqsUpTo(ItemShapes, MaxItems)}

\* lines 126-136: the link of an item, "" when it has none
ItemLink(item) ==
    IF item.enclosure = "magnet" THEN "enclosure:magnet"
    ELSE IF item.link_tag \in {"http", "magnet"} THEN "link:" \o item.link_tag
    ELSE ""

\* lines 146-154: findall('torznab:attr', namespaces) matches the elements
\* whose namespace URI is the client's
FoundAttr(ns, attr) == IF ns = TORZNAB_NAMESPACE THEN attr ELSE NoAttr

\* lines 186-188: int(s) if s and s.isdigit() else 0
DigitsOrZero(attr) == IF attr.set /\ attr.value >= 0 THEN attr.value ELSE 0

\* lines 169-176: leechers from peers - seeders when leechers is missing
Leechers(ns, item) ==
    LET leechers == FoundAttr(ns, item.leechers)
        seeders == FoundAttr(ns, item.seeders)
        peers == FoundAttr(ns, item.peers)
    IN IF leechers.set THEN leechers
       ELSE IF peers.set /\ seeders.set
       THEN Attr(Max(0, peers.value - seeders.value))
       ELSE NoAttr

\* lines 183-191
Release(ns, item, indexer) ==
    [title |-> item.title, link |-> ItemLink(item),
     size |-> DigitsOrZero(FoundAttr(ns, item.size)),
     seeders |-> DigitsOrZero(FoundAttr(ns, item.seeders)),
     leechers |-> DigitsOrZero(Leechers(ns, item)),
     indexer |-> indexer]

\* lines 124-192
RECURSIVE Releases(_, _, _)
Releases(ns, items, indexer) ==
    IF items = <<>> THEN <<>>
    ELSE LET rest == Releases(ns, Tail(items), indexer)
         IN IF ItemLink(Head(items)) = "" THEN rest
            ELSE <<Release(ns, Head(items), indexer)>> \o rest

\* line 110: root.find("error") looks among the children of the root
FindError(response) == response.kind = "error_child"

Parsed(raised, releases) == [done |-> TRUE, raised |-> raised, releases |-> releases]

\* lines 106-200
parse_torznab_response(response, indexer) ==
    CASE response.kind = "malformed" -> Parsed("JackettParseError", <<>>)
      [] FindError(response) -> Parsed("JackettAPIError", <<>>)
      [] response.kind = "feed" ->
            Parsed("none", Releases(response.ns, response.items, indexer))
      [] OTHER -> Parsed("none", <<>>)

IndexerNames == {"i1", "i2"}

ParseCalls ==
    {[op |-> "parse", response |-> r, indexer |-> i] :
        r \in Responses, i \in IndexerNames}

ParseTorznabResponse ==
    /\ prog = "parse" /\ ~result.done
    /\ result' = parse_torznab_response(call.response, call.indexer)
    /\ UNCHANGED CallRest

(***************************************************************************)
(* jackett_client.JackettClient.search                                     *)
(***************************************************************************)
MaxIndexers == 2      \* length of the indexer list of a search

\* what session.get and raise_for_status do for one indexer
Transports == {"ok", "http_error", "timeout", "request_error"}

SearchResponses ==
    {r \in Responses :
        r.kind = "feed" => /\ r.ns = TORZNAB_NAMESPACE
                           /\ r.items \in {<<>>,
                                 <<Item("A", "magnet", "none", Attr(1073741824), Attr(10),
                                        Attr(2), NoAttr)>>}}

\* One indexer's answer. The document matters only when the request got
\* through.
Outcomes ==
    {[transport |-> t, response |-> r] :
        t \in Transports \ {"ok"},
        r \in {x \in SearchResponses : x.kind = "no_channel"}}
    \cup {[transport |-> "ok", response |-> r] : r \in SearchResponses}

OutcomesOfLen(n) == {q \in SeqsUpTo(Outcomes, n) : Len(q) = n}

\* lines 234-237
EffectiveIndexers(indexers) == IF indexers = <<>> THEN <<"all">> ELSE indexers

\* the test of lines 269, 274, 279, 284 and 289
OnlyAll(indexer_id, effective_indexers) ==
    indexer_id = "all" /\ Len(effective_indexers) = 1

\* Faulty variant: the first failure ends the search.
SearchIndexerStrict(st, indexer_id, outcome, effective_indexers) ==
    IF st.raised # "none" THEN st
    ELSE IF outcome.transport # "ok"
    THEN [st EXCEPT !.raised = "JackettConnectionError"]
    ELSE LET parsed == parse_torznab_response(outcome.response, indexer_id)
         IN IF parsed.raised = "none"
            THEN [st EXCEPT !.all_results = @ \o parsed.releases,
                            !.successful = @ + 1]
            ELSE [st EXCEPT !.raised = parsed.raised]

\* lines 243-290: one indexer; st = [all_results, successful, raised]
SearchIndexer(st, indexer_id, outcome, effective_indexers) ==
    IF st.raised # "none" THEN st
    ELSE IF outcome.transport # "ok"
    THEN IF OnlyAll(indexer_id, effective_indexers)
         THEN [st EXCEPT !.raised = "JackettConnectionError"]
         ELSE st
    ELSE LET parsed == parse_torznab_response(outcome.response, indexer_id)
         IN IF parsed.raised = "none"
            THEN [st EXCEPT !.all_results = @ \o parsed.releases,
                            !.successful = @ + 1]
            ELSE IF OnlyAll(indexer_id, effective_indexers)
            THEN [st EXCEPT !.raised = parsed.raised]
            ELSE st

RECURSIVE SearchLoop(_, _, _, _)
SearchLoop(st, i, outcomes, effective_indexers) ==
    IF i > Len(effective_indexers) THEN st
    ELSE SearchLoop(SearchIndexer(st, effective_indexers[i], outcomes[i],
                                  effective_indexers),
                    i + 1, outcomes, effective_indexers)

Searched(raised, releases, outcomes) ==
    [done |-> TRUE, raised |-> raised, releases |-> releases, outcomes |-> outcomes]

\* lines 231-296
search(query, indexers, outcomes) ==
    IF query = "" THEN Searched("ValueError", <<>>, <<>>)
    ELSE LET effective_indexers == EffectiveIndexers(indexers)
             st == SearchLoop([all_results |-> <<>>, successful |-> 0,
                               raised |-> "none"], 1, outcomes, effective_indexers)
         IN IF st.raised # "none" THEN Searched(st.raised, <<>>, outcomes)
            ELSE IF st.successful = 0 THEN Searched("JackettSearchError", <<>>, outcomes)
            ELSE Searched("none", st.all_results, outcomes)

SearchCalls ==
    {[op |-> "search", query |-> q, indexers |-> l] :
        q \in {"", "ubuntu"}, l \in SeqsUpTo(IndexerNames \cup {"all"}, MaxIndexers)}

Search ==
    /\ prog = "search" /\ ~result.done
    /\ \E outcomes \in OutcomesOfLen(Len(EffectiveIndexers(call.indexers))) :
          result' = search(call.query, call.indexers, outcomes)
    /\ UNCHANGED CallRest

(***************************************************************************)
(* TransmissionClient.get_torrent_info (2transmission_client.py and        *)
(* a2/a2transmission_client.py hold the same text)                         *)
(***************************************************************************)
MaxTorrentId == 3     \* torrent ids of the daemon

TorrentIds == 1..MaxTorrentId

\* The exception classes at play and their base classes (lines 26-50).
Bases(cls) ==
    CASE cls = "TorrentNotFoundError" -> {"TransmissionClientError", "Exception"}
      [] cls = "OperationFailureError" -> {"TransmissionClientError", "Exception"}
      [] cls = "TransmissionConnectionError" -> {"TransmissionClientError", "Exception"}
      [] cls = "OriginalTransmissionError" -> {"Exception"}
      [] cls = "KeyError" -> {"Exception"}
      [] OTHER -> {}

\* would `except handler` catch an exception of class cls?
Catches(handler, cls) == cls = handler \/ handler \in Bases(cls)

\* What self.client.get_torrent does: it returns the torrent, returns None,
\* or raises an error of some class with some text.
Returned(v) == [kind |-> "return", value |-> v, cls |-> "", text |-> ""]

Raised(cls, text) == [kind |-> "raise", value |-> 0, cls |-> cls, text |-> text]

\* for an id the daemon holds
LibraryFound(torrent_id) ==
    {Returned(torrent_id),
     Raised("OriginalTransmissionError", "timeout"),
     Raised("KeyError", "hashString")}

\* for an id the daemon does not hold
LibraryMissing ==
    {Returned(0),
     Raised("OriginalTransmissionError", "torrent not found"),
     Raised("OriginalTransmissionError", "no torrent with id"),
     Raised("OriginalTransmissionError", "timeout"),
     Raised("KeyError", "hashString")}

\* line 227
SaysNotFound(text) == text \in {"torrent not found", "no torrent with id"}

Info(raised, torrent, library) ==
    [done |-> TRUE, raised |-> raised, torrent |-> torrent, library |-> library]

\* lines 225-231: the except clauses, tried in order, for an exception that
\* leaves the try block
Handle(exc) ==
    IF Catches("OriginalTransmissionError", exc.cls)
    THEN IF SaysNotFound(exc.text) THEN "TorrentNotFoundError"
         ELSE "OperationFailureError"
    ELSE IF Catches("Exception", exc.cls) THEN "OperationFailureError"
    ELSE exc.cls

\* lines 219-231. The raise of line 223 is inside the try block.
get_torrent_info(connected, library) ==
    IF ~connected THEN Info("TransmissionConnectionError", 0, library)
    ELSE IF library.kind = "raise" THEN Info(Handle(library), 0, library)
    ELSE IF library.value = 0
    THEN Info(Handle(Raised("TorrentNotFoundError", "not found.")), 0, library)
    ELSE Info("none", library.value, library)

InfoCalls ==
    {[op |-> "get_torrent_info", module |-> m, connected |-> c, torrents |-> held,
      torrent_id |-> id] :
        m \in {"2transmission_client", "a2transmission_client"}, c \in BOOLEAN,
        held \in SUBSET TorrentIds, id \in TorrentIds}

GetTorrentInfo ==
    /\ prog = "get_torrent_info" /\ ~result.done
    /\ \E library \in IF call.torrent_id \in call.torrents
                      THEN LibraryFound(call.torrent_id) ELSE LibraryMissing :
          result' = get_torrent_info(call.connected, library)
    /\ UNCHANGED CallRest

(***************************************************************************)
(* telegram_utils.list_torrents                                            *)
(***************************************************************************)
MaxListed == 2        \* torrents the backend returns for a listing

\* states the backend reports; the last two are in none of the lists of
\* lines 356-362
ListedStates == {"downloading", "seeding", "pausedUP", "error", "queuedUP", "metaDL"}

Listed(name, state) == [name |-> name, state |-> state]

ListedTorrents == {Listed(n, st) : n \in {"n1", "n2"}, st \in ListedStates}

\* lines 356-363: the list a torrent is appended to, "" for none
GroupOf(estado) ==
    IF estado \in {"downloading", "stalledDL", "checkingDL", "queuedDL", "forcedDL"}
    THEN "ativos"
    ELSE IF estado \in {"pausedDL", "pausedUP"} THEN "pausados"
    ELSE IF estado \in {"uploading", "seeding", "finished", "stalledUP", "checkingUP",
                        "forcedUP"}
    THEN "finalizados"
    ELSE IF estado \in {"stalledDL", "stalledUP", "error", "missingFiles", "unknown"}
    THEN "parados"
    ELSE ""

\* lines 346-363: the names appended to one of the four lists, in order
NamesIn(group, torrents) ==
    LET members == SelectSeq(torrents, LAMBDA t : GroupOf(t.state) = group)
    IN [i \in 1..Len(members) |-> members[i].name]

HeaderOf(group) ==
    CASE group = "ativos" -> "Torrents Ativos"
      [] group = "pausados" -> "Torrents Pausados"
      [] group = "finalizados" -> "Torrents Finalizados"
      [] OTHER -> "Torrents com Erro/Parados"

Part(group, torrents) == [header |-> HeaderOf(group), names |-> NamesIn(group, torrents)]

\* lines 365-381: the header of the first list is always there, the others
\* when their list is not empty
MsgParts(torrents) ==
    <<Part("ativos", torrents)>>
    \o SelectSeq(<<Part("pausados", torrents), Part("finalizados", torrents),
                   Part("parados", torrents)>>,
                 LAMBDA part : part.names # <<>>)

ListResult(kind, parts) == [done |-> TRUE, kind |-> kind, parts |-> parts]

\* lines 339-384; fetched: fetch_torrents returned the list, or raised
list_torrents(connected, fetched, torrents) ==
    IF ~connected THEN ListResult("not_connected", <<>>)
    ELSE IF ~fetched THEN ListResult("error", <<>>)
    ELSE ListResult("list", MsgParts(torrents))

ListCalls ==
    {[op |-> "list_torrents", connected |-> c, torrents |-> l] :
        c \in BOOLEAN, l \in SeqsUpTo(ListedTorrents, MaxListed)}

ListTorrents ==
    /\ prog = "list_torrents" /\ ~result.done
    /\ \E fetched \in BOOLEAN :
          result' = list_torrents(call.connected, fetched, call.torrents)
    /\ UNCHANGED CallRest

(***************************************************************************)
(* jellyfin_consolidated: JellyfinManager.get_status_text                  *)
(***************************************************************************)
MaxEntries == 1       \* entries of a JSON array the backend answers with

\* what one HTTP request meets: no answer at all, an error status, an answer
\* without content, a JSON array of n entries, or a JSON object whose only
\* key is Items, holding n entries
BackendResponses ==
    {[kind |-> k, n |-> 0] : k \in {"transport_error", "http_error", "no_content"}}
    \cup {[kind |-> k, n |-> n] : k \in {"array", "object"}, n \in 0..MaxEntries}

Answered(response) == response.kind \notin {"transport_error", "http_error"}

\* JellyfinClient._make_request, lines 25-55: None for every failure, the
\* decoded body otherwise ({} when there is no content)
make_request(response) ==
    IF Answered(response)
    THEN IF response.kind = "no_content" THEN [kind |-> "object_empty", n |-> 0]
         ELSE response
    ELSE [kind |-> "None", n |-> 0]

\* Python truth value of what _make_request returned
Truthy(value) ==
    CASE value.kind = "None" -> FALSE
      [] value.kind = "object_empty" -> FALSE
      [] value.kind = "array" -> value.n > 0
      [] OTHER -> TRUE

\* len() of what get_libraries returns, lines 131-134: the result, or []
LenLibraries(value) ==
    IF ~Truthy(value) THEN 0
    ELSE IF value.kind = "array" THEN value.n
    ELSE 1

\* get_recently_added, lines 136-151: result.get('Items', []) raises on a
\* non-empty array, which has no get
RecentRaises(value) == Truthy(value) /\ value.kind = "array"

\* JellyfinManager.is_available, lines 254-256
is_available(manager) ==
    manager.client /\ (manager.api_key \/ manager.access_token)

StatusResult(text, libraries, responses) ==
    [done |-> TRUE, text |-> text, libraries |-> libraries, responses |-> responses]

\* lines 302-325; responses: what the three requests of lines 308-310 meet.
\* "unavailable" is the message of line 305 and "connection_error" the one of
\* line 325, which both start with the cross mark; "connection_ok" is the
\* status text of lines 312-319, which ends with 'Conexao OK'
get_status_text(manager, responses) ==
    IF ~is_available(manager)
    THEN StatusResult("unavailable", 0, <<>>)
    ELSE LET libraries == make_request(responses[2])
             recent == make_request(responses[3])
         IN IF RecentRaises(recent)
            THEN StatusResult("connection_error", 0, responses)
            ELSE StatusResult("connection_ok", LenLibraries(libraries), responses)

\* JellyfinManager.__init__, lines 241-252: a client when JELLYFIN_URL is
\* set, an access token only from a client that authenticated
Managers ==
    {[client |-> c, api_key |-> k, access_token |-> a] :
        c \in BOOLEAN, k \in BOOLEAN, a \in BOOLEAN} \ 
    {[client |-> FALSE, api_key |-> k, access_token |-> TRUE] : k \in BOOLEAN}

StatusCalls == {[op |-> "get_status_text", manager |-> m] : m \in Managers}

GetStatusText ==
    /\ prog = "get_status_text" /\ ~result.done
    /\ \E r1 \in BackendResponses, r2 \in BackendResponses, r3 \in BackendResponses :
          result' = get_status_text(call.manager, <<r1, r2, r3>>)
    /\ UNCHANGED CallRest

(***************************************************************************)
(* youtube_downloader.YouTubeDownloader: download_video, run directly or   *)
(* on the thread of download_video_async, and cancel_download              *)
(***************************************************************************)
\* the two overlapping calls
Threads == {"t1", "t2"}

\* what get_video_id gives for the URLs of the calls
VideoIds == {"v1", "v2"}

Absent == [status |-> "absent", owner |-> "", info |-> FALSE]

Entry(status, owner, info) == [status |-> status, owner |-> owner, info |-> info]

NoThread == [pc |-> "idle", id |-> "", async |-> FALSE, run |-> ""]

\* a call that has its entry written and has not yet left download_video
InFlight(t) == thread[t].pc \in {"info", "set_info", "run", "mark", "callback", "finally"}

\* the entry a step of call t touches is the one another call in flight wrote
OthersEntry(t) ==
    LET entry == active_downloads[thread[t].id]
    IN /\ entry.status # "absent"
       /\ entry.owner # t
       /\ entry.owner \in Threads
       /\ InFlight(entry.owner)
       /\ thread[entry.owner].id = thread[t].id

YtRest == <<prog, env, pc, authorized_users, jellyfin_manager, tg_pending,
            tg_last_id, last_update_id, updates, new_last_id, upd_idx, poll, ret,
            log, submitted, resubmitted, completed_torrents, previous_torrents_state,
            sent, notified, undelivered, status_counter, last_status_time, now,
            auth_outcome, call, result>>

\* line 190 (download_video) or lines 290, 323-324 (download_video_async)
YtStart(t) ==
    /\ prog = "youtube" /\ thread[t].pc = "idle"
    /\ \E id \in VideoIds, async \in BOOLEAN :
          thread' = [thread EXCEPT ![t] = [pc |-> "register", id |-> id,
                                           async |-> async, run |-> ""]]
    /\ UNCHANGED <<active_downloads, on_complete_calls, on_error_calls, cancelled,
                   clobbered, YtRest>>

\* lines 191-197
YtRegister(t) ==
    /\ prog = "youtube" /\ thread[t].pc = "register"
    /\ active_downloads' =
          [active_downloads EXCEPT ![thread[t].id] = Entry("downloading", t, FALSE)]
    /\ thread' = [thread EXCEPT ![t].pc = "info"]
    /\ UNCHANGED <<on_complete_calls, on_error_calls, cancelled, clobbered, YtRest>>

\* an on_error call of lines 203-204 or 256-257: when the callback raises,
\* the handler of lines 259-263 calls it a second time
ErrorCalls(raises) == IF raises THEN 2 ELSE 1

\* lines 200-205
YtGetInfo(t) ==
    /\ prog = "youtube" /\ thread[t].pc = "info"
    /\ \E found \in BOOLEAN, raises \in BOOLEAN :
          IF found
          THEN /\ ~raises
               /\ thread' = [thread EXCEPT ![t].pc = "set_info"]
               /\ UNCHANGED on_error_calls
          ELSE /\ thread' = [thread EXCEPT ![t].pc = "finally"]
               /\ on_error_calls' =
                     [on_error_calls EXCEPT ![t] = @ + ErrorCalls(raises)]
    /\ UNCHANGED <<active_downloads, on_complete_calls, cancelled, clobbered, YtRest>>

\* lines 207-215
YtSetInfo(t) ==
    /\ prog = "youtube" /\ thread[t].pc = "set_info"
    /\ active_downloads' =
          IF active_downloads[thread[t].id].status # "absent"
          THEN [active_downloads EXCEPT ![thread[t].id].info = TRUE]
          ELSE active_downloads
    /\ thread' = [thread EXCEPT ![t].pc = "run"]
    /\ UNCHANGED <<on_complete_calls, on_error_calls, cancelled, clobbered, YtRest>>

\* line 235: yt-dlp ends with status 0 and the file is there, or with
\* status 0 and no file, or with another status
RunOutcomes == {"ok", "no_file", "failed"}

YtRun(t) ==
    /\ prog = "youtube" /\ thread[t].pc = "run"
    /\ \E outcome \in RunOutcomes :
          thread' = [thread EXCEPT ![t].pc = "mark", ![t].run = outcome]
    /\ UNCHANGED <<active_downloads, on_complete_calls, on_error_calls, cancelled,
                   clobbered, YtRest>>

\* lines 236-243 and 247-255
YtMark(t) ==
    /\ prog = "youtube" /\ thread[t].pc = "mark"
    /\ LET present == active_downloads[thread[t].id].status # "absent"
           status == IF thread[t].run = "ok" THEN "completed" ELSE "failed"
       IN /\ active_downloads' =
                IF present
                THEN [active_downloads EXCEPT ![thread[t].id].status = status]
                ELSE active_downloads
          /\ clobbered' = IF OthersEntry(t)
                          THEN clobbered \cup {active_downloads[thread[t].id].owner}
                          ELSE clobbered
    /\ thread' = [thread EXCEPT ![t].pc = "callback"]
    /\ UNCHANGED <<on_complete_calls, on_error_calls, cancelled, YtRest>>

\* lines 244-246 and 256-264. On the thread of download_video_async the
\* on_complete passed down is complete_callback(file_path) of lines 302-304,
\* which line 245 calls with two arguments: the TypeError reaches the
\* handler of line 259, which calls on_error.
YtCallback(t) ==
    /\ prog = "youtube" /\ thread[t].pc = "callback"
    /\ \E raises \in BOOLEAN :
          IF thread[t].run = "ok"
          THEN IF thread[t].async
               THEN /\ ~raises
                    /\ on_error_calls' = [on_error_calls EXCEPT ![t] = @ + 1]
                    /\ UNCHANGED on_complete_calls
               ELSE /\ on_complete_calls' = [on_complete_calls EXCEPT ![t] = @ + 1]
                    /\ on_error_calls' =
                          [on_error_calls EXCEPT ![t] = @ + IF raises THEN 1 ELSE 0]
          ELSE /\ on_error_calls' =
                     [on_error_calls EXCEPT ![t] = @ + ErrorCalls(raises)]
               /\ UNCHANGED on_complete_calls
    /\ thread' = [thread EXCEPT ![t].pc = "finally"]
    /\ UNCHANGED <<active_downloads, cancelled, clobbered, YtRest>>

\* lines 265-269
YtFinally(t) ==
    /\ prog = "youtube" /\ thread[t].pc = "finally"
    /\ LET entry == active_downloads[thread[t].id]
           deletes == entry.status \notin {"absent", "completed"}
       IN /\ active_downloads' =
                IF deletes THEN [active_downloads EXCEPT ![thread[t].id] = Absent]
                ELSE active_downloads
          /\ clobbered' = IF deletes /\ OthersEntry(t)
                          THEN clobbered \cup {entry.owner}
                          ELSE clobbered
    /\ thread' = [thread EXCEPT ![t].pc = "done"]
    /\ UNCHANGED <<on_complete_calls, on_error_calls, cancelled, YtRest>>

\* cancel_download, lines 341-357, for an id that has an entry (it returns
\* True); the call is recorded when its download is still in progress
YtCancel(id) ==
    /\ prog = "youtube"
    /\ active_downloads[id].status # "absent"
    /\ active_downloads' = [active_downloads EXCEPT ![id].status = "cancelled"]
    /\ cancelled' =
          IF /\ active_downloads[id].status = "downloading"
             /\ thread[active_downloads[id].owner].pc \in {"info", "set_info", "run", "mark"}
          THEN cancelled \cup {active_downloads[id].owner}
          ELSE cancelled
    /\ UNCHANGED <<thread, on_complete_calls, on_error_calls, clobbered, YtRest>>

YoutubeStep ==
    \/ \E t \in Threads :
          \/ YtStart(t)
          \/ YtRegister(t)
          \/ YtGetInfo(t)
          \/ YtSetInfo(t)
          \/ YtRun(t)
          \/ YtMark(t)
          \/ YtCallback(t)
          \/ YtFinally(t)
    \/ \E id \in VideoIds : YtCancel(id)

(***************************************************************************)
(* Specifications                                                          *)
(***************************************************************************)
Programs == {"monitor", "main", "utils", "jellyfin", "bot2", "send_telegram", "parse",
             "search", "get_torrent_info", "list_torrents",
             "get_status_text", "youtube"}

\* the arguments a run's single call is made with
Calls(p) ==
    CASE p = "send_telegram" -> SendCalls
      [] p = "parse" -> ParseCalls
      [] p = "search" -> SearchCalls
      [] p = "get_torrent_info" -> InfoCalls
      [] p = "list_torrents" -> ListCalls
      [] p = "get_status_text" -> StatusCalls
      [] OTHER -> {NoCall}

\* A run's environment: the torrents the backend holds during the run, and
\* the chat updates that arrive. main.py's loop is explored with an empty
\* backend and a chat, and with a full backend and no chat.
Environments(p) ==
    CASE p = "monitor" -> {[hashes |-> Hashes, chat |-> "none"]}
      [] p = "main" -> {[hashes |-> {}, chat |-> "main"],
                        [hashes |-> Hashes, chat |-> "none"]}
      [] p = "utils" -> {[hashes |-> {}, chat |-> "commands"],
                         [hashes |-> {}, chat |-> "batches"]}
      [] OTHER -> {[hashes |-> {}, chat |-> "none"]}

EmptyDict == [h \in {} |-> [state |-> "", name |-> ""]]

Init ==
    /\ prog \in Programs
    /\ env \in Environments(prog)
    /\ pc = IF prog = "monitor" THEN "start" ELSE "poll"
    /\ authorized_users \in IF prog \in {"monitor", "main"} THEN {{}} ELSE {{}, {"u1"}}
    /\ jellyfin_manager \in IF prog = "utils" THEN BOOLEAN ELSE {FALSE}
    /\ tg_pending = <<>>
    /\ tg_last_id = 0
    /\ last_update_id = 0
    /\ updates = <<>>
    /\ new_last_id = 0
    /\ upd_idx = 1
    /\ poll = "none"
    /\ ret = "none"
    /\ log = <<>>
    /\ submitted = {}
    /\ resubmitted = {}
    /\ completed_torrents = {}
    /\ previous_torrents_state = EmptyDict
    /\ sent = <<>>
    /\ notified = {}
    /\ undelivered = {}
    /\ status_counter = 0
    /\ last_status_time = 0
    /\ now = Intervalo
    /\ auth_outcome = [cmd |-> "", user |-> "", ran |-> FALSE, denial |-> FALSE]
    /\ call \in Calls(prog)
    /\ result = NoResult
    /\ active_downloads = [id \in VideoIds |-> Absent]
    /\ thread = [t \in Threads |-> NoThread]
    /\ on_complete_calls = [t \in Threads |-> 0]
    /\ on_error_calls = [t \in Threads |-> 0]
    /\ cancelled = {}
    /\ clobbered = {}

NextMonitor == MonitorStart \/ MonitorCycle

NextMain ==
    \/ TgArrive
    \/ MainPoll
    \/ MainDispatch
    \/ MainCheckTorrents
    \/ MainExcept

NextUtils == TgArrive \/ UtilsProcessMessages

Next ==
    \/ MonitorStart
    \/ MonitorCycle
    \/ TgArrive
    \/ MainPoll
    \/ MainDispatch
    \/ MainCheckTorrents
    \/ MainExcept
    \/ UtilsProcessMessages
    \/ JellyfinCommand
    \/ Bot2Command
    \/ SendTelegram
    \/ ParseTorznabResponse
    \/ Search
    \/ GetTorrentInfo
    \/ ListTorrents
    \/ GetStatusText
    \/ YoutubeStep

Spec == Init /\ [][Next]_vars

\* torrent_monitor.monitor_torrents alone
InitMonitor == Init /\ prog = "monitor"

SpecMonitor == InitMonitor /\ [][NextMonitor]_vars

\* main.py alone
InitMain == Init /\ prog = "main"

SpecMain == InitMain /\ [][NextMain]_vars

\* telegram_utils.process_messages alone
InitUtils == Init /\ prog = "utils"

SpecUtils == InitUtils /\ [][NextUtils]_vars

\* the two completion monitors
InitCompletion == Init /\ prog \in {"monitor", "main"}

NextCompletion == NextMonitor \/ NextMain

SpecCompletion == InitCompletion /\ [][NextCompletion]_vars

\* the two process_messages
InitCursor == Init /\ prog \in {"utils", "main"}

NextCursor == NextUtils \/ NextMain

SpecCursor == InitCursor /\ [][NextCursor]_vars

\* the three variants that consult an authorized-user list
InitAuth == Init /\ prog \in {"utils", "jellyfin", "bot2"}

NextAuth == NextUtils \/ JellyfinCommand \/ Bot2Command

SpecAuth == InitAuth /\ [][NextAuth]_vars

\* telegram_utils.send_telegram alone
InitSend == Init /\ prog = "send_telegram"

NextSend == SendTelegram

SpecSend == InitSend /\ [][NextSend]_vars

\* JackettClient._parse_torznab_response alone
InitParse == Init /\ prog = "parse"

NextParse == ParseTorznabResponse

SpecParse == InitParse /\ [][NextParse]_vars

\* JackettClient.search alone
InitSearch == Init /\ prog = "search"

NextSearch == Search

SpecSearch == InitSearch /\ [][NextSearch]_vars

\* TransmissionClient.get_torrent_info alone
InitInfo == Init /\ prog = "get_torrent_info"

NextInfo == GetTorrentInfo

SpecInfo == InitInfo /\ [][NextInfo]_vars

\* telegram_utils.list_torrents alone
InitList == Init /\ prog = "list_torrents"

NextList == ListTorrents

SpecList == InitList /\ [][NextList]_vars

\* JellyfinManager.get_status_text alone
InitStatus == Init /\ prog = "get_status_text"

NextStatus == GetStatusText

SpecStatus == InitStatus /\ [][NextStatus]_vars

\* one YouTubeDownloader, its calls on their threads
InitYoutube == Init /\ prog = "youtube"

SpecYoutube == InitYoutube /\ [][YoutubeStep]_vars

(***************************************************************************)
(* Properties                                                              *)
(***************************************************************************)
\* the largest update_id of a non-empty batch
MaxIdOf(batch) == CHOOSE m \in {u.update_id : u \in Range(batch)} :
                      \A u \in Range(batch) : u.update_id <= m

\* C1: in monitor_torrents, a cycle that reads a torrent in a completed-class
\* state while its previous snapshot is download-class and no completion is
\* recorded for it sends exactly one completion notification for it; a cycle
\* after one that notified for a hash sends no completion notification for it.
C1_CompletionNotifiedOnce ==
    [][prog = "monitor" /\ pc = "loop" =>
         \A h \in Hashes :
            /\ (/\ h \in DOMAIN previous_torrents_state
                /\ previous_torrents_state[h].state \in download_states
                /\ h \in DOMAIN previous_torrents_state'
                /\ previous_torrents_state'[h].state \in completion_states
                /\ h \notin completed_torrents)
                  => CompletionsFor(sent', h) = 1
            /\ h \in notified => CompletionsFor(sent', h) = 0]_vars

\* C1 happens: a cycle of monitor_torrents has just notified a completion.
C1_Notified ==
    /\ prog = "monitor"
    /\ \E h \in Hashes :
          /\ CompletionsFor(sent, h) = 1
          /\ h \in completed_torrents
          /\ previous_torrents_state[h].state \in completion_states

\* C2 as stated: in telegram_utils.process_messages with a non-empty
\* AUTHORIZED_USERS, every recognised command and every YouTube or magnet
\* link from a sender outside the list gets a denial notification and makes
\* no call to the backend, the Jellyfin manager or the downloader.
C2_UnauthorizedAlwaysDenied ==
    (prog = "utils" /\ authorized_users # {}) =>
        \A i \in DOMAIN log :
            LET u == log[i].update
                text == keyboard_command_map(u.text)
            IN (/\ log[i].accepted
                /\ u.from_id \notin authorized_users
                /\ (text \in Commands \/ IsYoutubeUrl(text) \/ MagnetsIn(text) # <<>>))
                  => log[i].effect.denials >= 1 /\ log[i].effect.backend = 0

\* C3 as stated: with an empty authorized-user list all three variants let
\* any user through: no denial, and the command's handler runs.
C3_EmptyListAllowsAll ==
    authorized_users = {} =>
        /\ \A i \in DOMAIN log : log[i].effect.denials = 0
        /\ (auth_outcome.cmd # "" /\ auth_outcome.user # "")
              => auth_outcome.ran /\ ~auth_outcome.denial

\* C3, amended: with an empty authorized-user list
\* telegram_utils.process_messages and JellyfinTelegramBot let any user
\* through, while the decorator of 2telegram_bot.py turns every user away.
C3_EmptyListByVariant ==
    authorized_users = {} =>
        /\ \A i \in DOMAIN log :
              LET text == keyboard_command_map(log[i].update.text)
              IN /\ log[i].effect.denials = 0
                 /\ (/\ log[i].accepted
                     /\ text \in Commands
                     /\ (text \in {"/recent", "/recentes", "/libraries", "/status"}
                           => jellyfin_manager))
                       => log[i].effect.handled
        /\ (prog = "jellyfin" /\ auth_outcome.cmd # "")
              => auth_outcome.ran /\ ~auth_outcome.denial
        /\ (prog = "bot2" /\ auth_outcome.cmd # "" /\ auth_outcome.user # "")
              => ~auth_outcome.ran /\ auth_outcome.denial

\* C3 happens: 2telegram_bot.py, with an empty list, has turned a user away.
C3_Bot2TurnsAway ==
    /\ prog = "bot2"
    /\ authorized_users = {}
    /\ auth_outcome.user # ""
    /\ auth_outcome.denial

\* C4 as stated: telegram_utils.process_messages returns the largest
\* update_id of the batch it received, skipped updates included.
C4_CursorIsBatchMax ==
    (prog = "utils" /\ ret = "returned" /\ updates # <<>>)
        => last_update_id = MaxIdOf(updates)

\* C5 as stated: in main.py the magnet links of one update_id are submitted
\* to the backend during at most one call of process_messages.
C5_SubmittedInOneCallOnly == prog = "main" => resubmitted = {}

\* C6: the cursor a process_messages call returns is never below the cursor
\* it was given, and equals it when the poll brought no updates.
C6_CursorNeverDecreases ==
    [][/\ last_update_id' >= last_update_id
       /\ (ret' = "returned" /\ updates' = <<>>)
             => last_update_id' = last_update_id]_vars

\* C6 happens: a call that started from an advanced cursor got an empty batch.
C6_EmptyPollKeepsCursor ==
    /\ last_update_id > 0
    /\ poll = "ok"
    /\ ret = "returned"
    /\ updates = <<>>

\* C7 as stated: when the getUpdates request of
\* telegram_utils.process_messages fails, the call dispatches nothing,
\* raises nothing and returns the cursor it was given.
C7_FailedPollReturns ==
    (prog = "utils" /\ poll = "raise") => (ret = "returned" /\ log = <<>>)

\* C8 as stated: no failure inside an iteration of main.py's loop ends the
\* loop.
C8_LoopNeverEnds == prog = "main" => pc # "crashed"

\* C9: in monitor_torrents and in main.py a hash recorded in
\* completed_torrents is never removed, and no completion notification is
\* attempted for a recorded hash.
C9_CompletedIsPermanent ==
    [][/\ completed_torrents \subseteq completed_torrents'
       /\ \A h \in completed_torrents : CompletionsFor(sent', h) = 0]_vars

\* C9 happens: a recorded hash has been read in a download-class state again.
C9_RecordedSeenDownloading ==
    \E h \in completed_torrents :
        /\ h \in DOMAIN previous_torrents_state
        /\ previous_torrents_state[h].state \in download_states

\* C10: in monitor_torrents a completion notification that send_telegram
\* fails to deliver still records the hash and updates its snapshot, and no
\* later cycle attempts a completion notification for that hash.
C10_FailedDeliveryStillRecorded ==
    [][prog = "monitor" =>
         /\ \A h \in Failed(sent') :
               /\ h \in completed_torrents'
               /\ h \in DOMAIN previous_torrents_state'
               /\ previous_torrents_state'[h].state \in completion_states
         /\ \A h \in undelivered : CompletionsFor(sent', h) = 0]_vars

\* C10 happens: a cycle after the failed delivery, the hash is recorded and
\* nothing was sent for it.
C10_NoRetry ==
    /\ prog = "monitor"
    /\ \E h \in undelivered :
          /\ h \in completed_torrents
          /\ CompletionsFor(sent, h) = 0

\* C11 as stated: in telegram_utils.process_messages a message from an
\* authorized user that holds several magnet-link matches has
\* add_magnet_func called once per match, and no exception cuts the
\* handling of the message short.
C11_EveryMatchSubmitted ==
    prog = "utils" =>
        \A i \in DOMAIN log :
            LET u == log[i].update
            IN (/\ log[i].accepted
                /\ IsAuthorized(authorized_users, u.from_id)
                /\ MagnetsIn(u.text) # <<>>)
                  => /\ log[i].effect.backend = Len(MagnetsIn(u.text))
                     /\ ~log[i].effect.raised

\* C12: send_telegram, with a bot token and a chat configured, called with
\* parse_mode HTML for a text whose opening and closing tag counts differ,
\* hands the text to the transport, and hands it over without a parse_mode.
C12_UnbalancedSentPlain ==
    (/\ prog = "send_telegram" /\ result.done
     /\ call.token /\ call.chat
     /\ call.parse_mode = "HTML"
     /\ call.msg.open_tags # call.msg.close_tags)
        => /\ Len(result.posts) = 1
           /\ result.posts[1].parse_mode = "None"
           /\ result.posts[1].text = Truncate(call.msg)

\* C12 happens: a text with one opening and no closing tag went out plain.
C12_OneOpeningTagSent ==
    /\ prog = "send_telegram" /\ result.done
    /\ call.parse_mode = "HTML"
    /\ call.msg.open_tags = 1 /\ call.msg.close_tags = 0
    /\ Len(result.posts) = 1
    /\ result.posts[1].parse_mode = "None"
    /\ result.ret

\* C13: every text send_telegram hands to the transport has at most 4096
\* characters; a longer message goes out as its first 4093 characters and
\* "...", a message of at most 4096 characters goes out unchanged.
C13_TransmittedLength ==
    (prog = "send_telegram" /\ result.done) =>
        \A i \in DOMAIN result.posts :
            LET t == result.posts[i].text
            IN /\ TextLen(t) <= 4096
               /\ call.msg.taken > 4096 => t.taken = 4093 /\ t.dots = 1
               /\ call.msg.taken <= 4096 => t.taken = call.msg.taken /\ t.dots = 0

\* C13 happens: a message longer than the limit went out, cut, twice (the
\* second time by the retry without HTML).
C13_LongMessageSent ==
    /\ prog = "send_telegram" /\ result.done
    /\ call.msg.taken > 4096
    /\ Len(result.posts) = 2
    /\ TextLen(result.posts[2].text) = 4096

\* C14 as stated: _parse_torznab_response, given a response whose root
\* element is <error code=... description=...>, raises JackettAPIError and
\* returns no result list.
C14_ErrorRootRaises ==
    (prog = "parse" /\ result.done /\ call.response.kind = "error_root")
        => result.raised = "JackettAPIError"

\* C15 as stated: _parse_torznab_response, given a valid feed, returns one
\* release per <item> that has a usable link, in document order, whose size,
\* seeders and leechers are the integer values of the item's torznab:attr
\* elements, whose link is the magnet URL of the enclosure, and whose
\* indexer is the name passed in.
C15_ReleasePerItem ==
    (prog = "parse" /\ result.done /\ call.response.kind = "feed") =>
        LET usable == SelectSeq(call.response.items,
                          LAMBDA it : it.enclosure = "magnet"
                                        \/ it.link_tag \in {"http", "magnet"})
        IN /\ result.raised = "none"
           /\ Len(result.releases) = Len(usable)
           /\ \A i \in 1..Len(usable) :
                 LET item == usable[i]
                     release == result.releases[i]
                 IN /\ release.title = item.title
                    /\ release.indexer = call.indexer
                    /\ item.enclosure = "magnet" => release.link = "enclosure:magnet"
                    /\ (item.size.set /\ item.size.value >= 0)
                          => release.size = item.size.value
                    /\ (item.seeders.set /\ item.seeders.value >= 0)
                          => release.seeders = item.seeders.value
                    /\ (item.leechers.set /\ item.leechers.value >= 0)
                          => release.leechers = item.leechers.value

\* C16 as stated: search called with a list of specific indexers that all
\* fail with a network-level error raises JackettConnectionError.
C16_AllFailRaisesConnectionError ==
    (/\ prog = "search" /\ result.done
     /\ call.query # ""
     /\ call.indexers # <<>>
     /\ \A i \in DOMAIN call.indexers : call.indexers[i] # "all"
     /\ \A i \in DOMAIN result.outcomes : result.outcomes[i].transport # "ok")
        => result.raised = "JackettConnectionError"

C18_MissingTorrentNotFound ==
    (prog = "get_torrent_info" /\ result.done /\ call.connected) =>
        LET library == result.library
            missing == \/ library.kind = "return" /\ library.value = 0
                       \/ library.kind = "raise" /\ SaysNotFound(library.text)
        IN /\ missing => result.raised = "TorrentNotFoundError"
           /\ (library.kind = "raise" /\ ~missing)
                 => result.raised = "OperationFailureError"

\* C19 as stated: for any list of torrents the backend returns, the message
\* of list_torrents names every returned torrent exactly once, under one
\* group header; a downloading torrent under 'Torrents Ativos', a seeding
\* one under 'Torrents Finalizados'.
C19_EveryTorrentListedOnce ==
    (prog = "list_torrents" /\ result.done /\ result.kind = "list") =>
        LET parts == result.parts
            entries(name, state) ==
                {<<p, i>> \in (DOMAIN parts) \X (1..(MaxListed + 1)) :
                    /\ i \in DOMAIN parts[p].names
                    /\ parts[p].names[i] = name
                    /\ (state = "downloading" => parts[p].header = "Torrents Ativos")
                    /\ (state = "seeding" => parts[p].header = "Torrents Finalizados")}
            returned(name) ==
                {i \in DOMAIN call.torrents : call.torrents[i].name = name}
        IN \A i \in DOMAIN call.torrents :
              LET t == call.torrents[i]
              IN /\ Cardinality(entries(t.name, "")) = Cardinality(returned(t.name))
                 /\ entries(t.name, t.state) # {}

\* C20 as stated: get_status_text returns 'Conexao OK' only if the backend
\* answered, and when every request fails with a transport error it returns
\* a failure message that starts with the cross mark.
C20_OkOnlyIfBackendAnswered ==
    (prog = "get_status_text" /\ result.done /\ is_available(call.manager)) =>
        /\ result.text = "connection_ok" =>
              \E i \in DOMAIN result.responses : Answered(result.responses[i])
        /\ (\A i \in DOMAIN result.responses :
               result.responses[i].kind = "transport_error") =>
              result.text \in {"connection_error",
                               "unavailable"}

\* C21 as stated: once cancel_download(id) has returned True for a download
\* in progress, get_download_status(id) never reports COMPLETED and the
\* download's on_complete callback is not invoked.
C21_CancelledNeverCompletes ==
    \A t \in cancelled :
        /\ active_downloads[thread[t].id].status # "completed"
        /\ on_complete_calls[t] = 0

\* C26 as stated: a download started with download_video_async invokes
\* exactly one of the caller's callbacks, exactly once: on_complete when the
\* yt-dlp run succeeded and the file exists, on_error otherwise.
C26_ExactlyOneCallback ==
    \A t \in Threads :
        (prog = "youtube" /\ thread[t].pc = "done" /\ thread[t].async) =>
            IF thread[t].run = "ok"
            THEN on_complete_calls[t] = 1 /\ on_error_calls[t] = 0
            ELSE on_complete_calls[t] = 0 /\ on_error_calls[t] = 1

\* C27 as stated: the completion, failure or cleanup of one download_video
\* call never deletes or overwrites the active_downloads entry of the other
\* call in flight, also when both calls have the same download id.
C27_CallsDoNotInterfere == clobbered = {}

\* C25 as stated: whenever send_telegram transmits a message with parse_mode
\* HTML, the text transmitted, after the cut to the length limit, holds as
\* many opening as closing tags.
C25_HtmlTransmittedBalanced ==
    (prog = "send_telegram" /\ result.done) =>
        \A i \in DOMAIN result.posts :
            result.posts[i].parse_mode = "HTML" =>
                result.posts[i].text.open_tags = result.posts[i].text.close_tags

\* C22: in monitor_torrents and in main.py's loop every hash recorded in
\* completed_torrents is a key of previous_torrents_state.
C22_CompletedWereObserved == completed_torrents \subseteq DOMAIN previous_torrents_state

\* C22 happens: main.py's loop has recorded a completion.
C22_MainRecorded ==
    /\ prog = "main"
    /\ completed_torrents # {}
    /\ completed_torrents \subseteq DOMAIN previous_torrents_state

\* C23: a hash that is read for the first time, in the snapshot taken when
\* monitor_torrents starts or in a later poll of either loop, gets no
\* completion notification in that step, whatever its state.
C23_FirstObservationSilent ==
    [][\A h \in Hashes :
          h \notin DOMAIN previous_torrents_state => CompletionsFor(sent', h) = 0]_vars

\* C23 happens: monitor_torrents has started with a torrent that is already
\* complete, and nothing was sent.
C23_CompleteAtStart ==
    /\ prog = "monitor" /\ pc = "loop"
    /\ now = Intervalo
    /\ sent = <<>>
    /\ \E h \in DOMAIN previous_torrents_state :
          previous_torrents_state[h].state \in completion_states

\* C24: in monitor_torrents a cycle whose fetch and diff went through sends
\* the status summary if and only if at least intervalo seconds have passed
\* since the last summary (the first cycle sends one), and it records the
\* completions it finds whether or not it sends a summary.
C24_SummaryOnItsOwnCadence ==
    [][(/\ prog = "monitor" /\ pc = "loop" /\ now' # now
        /\ \A i \in DOMAIN sent' : sent'[i].kind # "critical") =>
          /\ (\E i \in DOMAIN sent' : sent'[i].kind = "status")
                <=> now - last_status_time >= Intervalo
          /\ last_status_time' =
                IF now - last_status_time >= Intervalo THEN now ELSE last_status_time
          /\ last_status_time = 0 => \E i \in DOMAIN sent' : sent'[i].kind = "status"
          /\ \A h \in DOMAIN previous_torrents_state :
                (/\ previous_torrents_state[h].state \in download_states
                 /\ previous_torrents_state'[h].state \in completion_states)
                    => h \in completed_torrents']_vars

\* C24 happens: a cycle between two summaries found a completion and sent
\* the notification for it, and no summary.
C24_DiffWithoutSummary ==
    /\ prog = "monitor" /\ pc = "loop"
    /\ last_status_time > 0
    /\ \E i \in DOMAIN sent : sent[i].kind = "completed"
    /\ \A i \in DOMAIN sent : sent[i].kind # "status"

\* C30: in main.py's loop, when sending the completion notification for a
\* hash raises, the cycle leaves the hash out of completed_torrents and
\* leaves its snapshot entry in the downloading state; a later cycle that
\* reads the hash as completed attempts the notification again.
C30_FailedNotificationKeepsState ==
    [][prog = "main" =>
         /\ \A h \in Failed(sent') :
               /\ h \notin completed_torrents'
               /\ previous_torrents_state'[h] = previous_torrents_state[h]
               /\ previous_torrents_state[h].state = "downloading"
         /\ \A h \in undelivered \ completed_torrents :
               (/\ previous_torrents_state[h].state = "downloading"
                /\ previous_torrents_state'[h].state \in {"seeding", "finished"})
                   => CompletionsFor(sent', h) = 1]_vars

\* C30 happens: a notification that had failed was attempted again by a
\* later cycle of main.py and got through.
C30_RetriedAfterFailure ==
    /\ prog = "main"
    /\ \E h \in undelivered :
          /\ h \in completed_torrents
          /\ CompletionsFor(sent, h) = 1

\* C29: every call of send_telegram returns a boolean after at most two
\* sendMessage attempts; the second is made only when the first went out in
\* HTML mode and failed with a request error, and goes out without a
\* parse_mode; the value returned is True exactly when the last attempt made
\* succeeded.
C29_AtMostTwoAttempts ==
    (prog = "send_telegram" /\ result.done) =>
        LET attempts == Len(result.posts)
        IN /\ result.ret \in BOOLEAN
           /\ attempts <= 2
           /\ Len(result.met) = attempts
           /\ attempts = 2 =>
                 /\ result.posts[1].parse_mode = "HTML"
                 /\ result.met[1] = "request_error"
                 /\ result.posts[2].parse_mode = "None"
           /\ result.ret <=> (attempts > 0 /\ result.met[attempts] = "ok")

\* C29 happens: the HTML attempt failed and the plain one got through.
C29_PlainRetryDelivered ==
    /\ prog = "send_telegram" /\ result.done
    /\ result.met = <<"request_error", "ok">>
    /\ result.posts[1].parse_mode = "HTML"
    /\ result.posts[2].parse_mode = "None"
    /\ result.ret

====
